---- MODULE Spec2Model ----
(***************************************************************************)
(* Model of the extq estimation core:                                      *)
(*   src/src/extq/memory/_dga.py  (DGA with memory: transforms, generator  *)
(*                                 solves, _memlags, estimator pipeline)   *)
(*   src/src/extq/dga/_xdga.py    (extended-process engine)                *)
(*                                                                         *)
(* Floating-point numbers are modelled as extended rationals <<n, d>>:     *)
(* d > 0 is the finite value n/d in lowest terms, <<1, 0>> and <<-1, 0>>   *)
(* are +inf and -inf, <<0, 0>> is nan.  Rounding and the sign of zero are  *)
(* not modelled; division by zero gives inf or nan as numpy's does.        *)
(***************************************************************************)
EXTENDS Integers, Sequences, FiniteSets, TLC

VARIABLES
    pc,     \* position of the running call
    args,   \* arguments of the call
    loc,    \* local variables of the call
    ret     \* what the call returned or raised

vars == <<pc, args, loc, ret>>

----------------------------------------------------------------------------
(* Bounds of the model *)

MaxTraj == 2        \* trajectories per call
MaxFrames == 2      \* frames per trajectory in the transforms
MaxBasis == 1       \* basis functions (n_basis, n_w_basis)
MaxNt == 2          \* transitions per trajectory in the extended engine
MaxNi == 2          \* values of the index process

----------------------------------------------------------------------------
(* Extended rational arithmetic *)

Abs(n) == IF n < 0 THEN -n ELSE n
Sgn(n) == IF n < 0 THEN -1 ELSE IF n = 0 THEN 0 ELSE 1

RECURSIVE Gcd(_, _)
Gcd(a, b) == IF b = 0 THEN a ELSE Gcd(b, a % b)

Norm(n, d) ==
    IF d = 1 THEN <<n, 1>>
    ELSE IF d = 0 THEN <<Sgn(n), 0>>
    ELSE LET g == Gcd(Abs(n), Abs(d))
         IN <<Sgn(d) * (n \div g), Abs(d) \div g>>

F(n) == <<n, 1>>
NaN == <<0, 0>>
IsFinite(x) == x[2] # 0

FAdd(x, y) ==
    IF x[2] = 0 /\ y[2] = 0
    THEN (IF x = y THEN x ELSE NaN)
    ELSE Norm(x[1] * y[2] + y[1] * x[2], x[2] * y[2])
FNeg(x) == <<-x[1], x[2]>>
FSub(x, y) == FAdd(x, FNeg(y))
FMul(x, y) == Norm(x[1] * y[1], x[2] * y[2])
Recip(x) ==
    IF x[1] = 0 THEN (IF x[2] = 0 THEN NaN ELSE <<1, 0>>)
    ELSE IF x[2] = 0 THEN F(0)
    ELSE <<Sgn(x[1]) * x[2], Abs(x[1])>>
FDiv(x, y) == FMul(x, Recip(y))

RECURSIVE FSum(_)
FSum(s) == IF s = <<>> THEN F(0) ELSE FAdd(Head(s), FSum(Tail(s)))

\* u @ v for two vectors of the same length
Dot(u, v) == FSum([i \in 1..Len(u) |-> FMul(u[i], v[i])])

\* Python slice s[a:b] with 0 <= a <= b <= len(s), as a sequence
Slice(s, a, b) == [i \in 1..(b - a) |-> s[a + i]]

\* numpy.where(cond, x, y) at one element
Where(cond, x, y) == IF cond THEN x ELSE y

\* finite values the inputs are drawn from
CoefVals == {F(-1), F(0), F(2)}
BasisVals == {F(0), F(1)}
GuessVals == {F(0), F(1)}
WeightVals == {F(0), F(1)}

Vectors(n, S) == [1..n -> S]

\* coefficient vectors of length n: a first entry, a last entry, and one value
\* for the entries between them
CoefVectors(n) ==
    {[i \in 1..n |-> IF i = 1 THEN c[1] ELSE IF i = n THEN c[3] ELSE c[2]] :
        c \in Vectors(3, CoefVals)}

----------------------------------------------------------------------------
(* Transform/Projection: reweight_transform, forecast_transform,           *)
(* aftcast_transform.  Each appends one array per trajectory; the array    *)
(* expression is elementwise over the frame axis, and the operators below  *)
(* give its element at one frame from that frame's rows.                   *)

\* variant: the weight multiplies the basis part only
reweight_transform_misplaced(coeffs, x_w, w) ==
    FAdd(coeffs[1], FMul(w, Dot(x_w, Slice(coeffs, 1, Len(coeffs)))))

reweight_transform(coeffs, x_w, w) ==
    FMul(w, FAdd(coeffs[1], Dot(x_w, Slice(coeffs, 1, Len(coeffs)))))

\* variant: the correction is not masked by in_domain
forecast_transform_unmasked(coeffs, y_f, d_f, g_f) ==
    FAdd(g_f, FDiv(Dot(y_f, Slice(coeffs, 0, Len(coeffs) - 1)), coeffs[Len(coeffs)]))

forecast_transform(coeffs, y_f, d_f, g_f) ==
    FAdd(g_f,
         FDiv(Where(d_f, Dot(y_f, Slice(coeffs, 0, Len(coeffs) - 1)), F(0)),
              coeffs[Len(coeffs)]))

aftcast_com(coeffs, x_w) ==
    LET n == Len(x_w) + 1
    IN FAdd(coeffs[1], Dot(x_w, Slice(coeffs, 1, n)))

\* variant: the correction block starts one index early (coeffs[n-1:-1])
aftcast_transform_shifted(coeffs, x_w, x_b, d_b, g_b) ==
    LET n == Len(x_w) + 1
        com == aftcast_com(coeffs, x_w)
    IN FAdd(g_b,
            FDiv(Where(d_b, Dot(x_b, Slice(coeffs, n - 1, Len(coeffs) - 1)), F(0)),
                 com))

aftcast_transform(coeffs, x_w, x_b, d_b, g_b) ==
    LET n == Len(x_w) + 1
        com == aftcast_com(coeffs, x_w)
    IN FAdd(g_b,
            FDiv(Where(d_b, Dot(x_b, Slice(coeffs, n, Len(coeffs))), F(0)),
                 com))

TransformFns == {"reweight_transform", "forecast_transform", "aftcast_transform"}

NoFrame == [fn |-> "none"]

InitT ==
    /\ pc = "loop"
    /\ \E fn \in TransformFns, nw \in 0..MaxBasis, nb \in 1..MaxBasis :
          /\ fn = "aftcast_transform" \/ nw = 0
          /\ \E c \in CoefVectors(1 + nw + nb) :
                args = [fn |-> fn, coeffs |-> c, n_w_basis |-> nw, n_basis |-> nb]
    /\ loc = [k |-> 0, t |-> 0, frame |-> NoFrame]
    /\ ret = [kind |-> "running"]

\* one frame of `w * (coeffs[0] + x_w @ coeffs[1:])`
ReweightFrame ==
    /\ pc = "loop" /\ args.fn = "reweight_transform"
    /\ loc.k < MaxTraj /\ loc.t < MaxFrames
    /\ \E x_w \in Vectors(args.n_basis, BasisVals), w \in WeightVals :
          loc' = [loc EXCEPT !.t = @ + 1,
                             !.frame = [fn |-> args.fn, x_w |-> x_w, w |-> w,
                                        out |-> reweight_transform(args.coeffs, x_w, w)]]
    /\ UNCHANGED <<pc, args, ret>>

\* one frame of `g_f + np.where(d_f, y_f @ coeffs[:-1], 0.0) / coeffs[-1]`
ForecastFrame ==
    /\ pc = "loop" /\ args.fn = "forecast_transform"
    /\ loc.k < MaxTraj /\ loc.t < MaxFrames
    /\ \E y_f \in Vectors(args.n_basis, BasisVals), d_f \in BOOLEAN, g_f \in GuessVals :
          loc' = [loc EXCEPT !.t = @ + 1,
                             !.frame = [fn |-> args.fn, y_f |-> y_f, d_f |-> d_f, g_f |-> g_f,
                                        out |-> forecast_transform(args.coeffs, y_f, d_f, g_f)]]
    /\ UNCHANGED <<pc, args, ret>>

\* one frame of `g_b + np.where(d_b, x_b @ coeffs[n:], 0.0) / com`
AftcastFrame ==
    /\ pc = "loop" /\ args.fn = "aftcast_transform"
    /\ loc.k < MaxTraj /\ loc.t < MaxFrames
    /\ \E x_w \in Vectors(args.n_w_basis, BasisVals), x_b \in Vectors(args.n_basis, BasisVals),
          d_b \in BOOLEAN, g_b \in GuessVals :
          loc' = [loc EXCEPT !.t = @ + 1,
                             !.frame = [fn |-> args.fn, x_w |-> x_w, x_b |-> x_b,
                                        d_b |-> d_b, g_b |-> g_b,
                                        out |-> aftcast_transform(args.coeffs, x_w, x_b, d_b, g_b)]]
    /\ UNCHANGED <<pc, args, ret>>

\* result.append(...): the trajectory's array is complete
TransformAppend ==
    /\ pc = "loop" /\ loc.k < MaxTraj /\ loc.t >= 1
    /\ loc' = [k |-> loc.k + 1, t |-> 0, frame |-> NoFrame]
    /\ UNCHANGED <<pc, args, ret>>

\* return result
TransformReturn ==
    /\ pc = "loop" /\ loc.t = 0
    /\ pc' = "done"
    /\ ret' = [kind |-> "ok", len |-> loc.k]
    /\ UNCHANGED <<args, loc>>

NextT ==
    \/ ReweightFrame
    \/ ForecastFrame
    \/ AftcastFrame
    \/ TransformAppend
    \/ TransformReturn

SpecT == InitT /\ [][NextT]_vars

----------------------------------------------------------------------------
(* Claims about the transforms (checked under SpecT) *)

AtFrame(fn) == pc = "loop" /\ loc.frame.fn = fn

\* sum over i in 1..n of u[i] * c[off + i], written out index by index
RECURSIVE LinComb(_, _, _, _)
LinComb(u, c, off, n) ==
    IF n = 0 THEN F(0) ELSE FAdd(LinComb(u, c, off, n - 1), FMul(u[n], c[off + n]))

\* C2 as stated: forecast_transform returns exactly guess[frame] at every frame
\* where in_domain[frame] is false, for every coefficient vector, basis and guess.
C2_GuessKeptForEveryCoeffs ==
    AtFrame("forecast_transform") /\ ~loc.frame.d_f => loc.frame.out = loc.frame.g_f

\* C2 amended: when coeffs[-1] is not zero, forecast_transform returns exactly
\* guess[frame] at every frame out of the domain, and at a frame in the domain
\* (out - guess[frame]) * coeffs[-1] = basis[frame] . coeffs[:-1].
C2_ForecastTransform ==
    AtFrame("forecast_transform") /\ args.coeffs[Len(args.coeffs)] # F(0) =>
        LET fr == loc.frame
            c == args.coeffs
        IN /\ ~fr.d_f => fr.out = fr.g_f
           /\ fr.d_f => FMul(FSub(fr.out, fr.g_f), c[Len(c)])
                           = LinComb(fr.y_f, c, 0, args.n_basis)

\* a frame out of the domain whose unmasked correction would not be zero
C2_Witness ==
    /\ AtFrame("forecast_transform")
    /\ ~loc.frame.d_f
    /\ args.coeffs[Len(args.coeffs)] # F(0)
    /\ LinComb(loc.frame.y_f, args.coeffs, 0, args.n_basis) # F(0)
    /\ loc.frame.out = loc.frame.g_f

\* C3 as stated: aftcast_transform returns exactly guess[frame] at every frame
\* where in_domain[frame] is false, for every coefficient vector, w_basis, basis
\* and guess.
C3_GuessKeptForEveryCoeffs ==
    AtFrame("aftcast_transform") /\ ~loc.frame.d_b => loc.frame.out = loc.frame.g_b

\* C3 amended: with n = n_w_basis + 1 and com = coeffs[0] + w_basis[frame] . coeffs[1:n],
\* at every frame where com is not zero aftcast_transform returns exactly
\* guess[frame] out of the domain, and in the domain
\* (out - guess[frame]) * com = basis[frame] . coeffs[n:].
C3_AftcastTransform ==
    AtFrame("aftcast_transform") =>
        LET fr == loc.frame
            c == args.coeffs
            com == FAdd(c[1], LinComb(fr.x_w, c, 1, args.n_w_basis))
        IN com # F(0) =>
              /\ ~fr.d_b => fr.out = fr.g_b
              /\ fr.d_b => FMul(FSub(fr.out, fr.g_b), com)
                              = LinComb(fr.x_b, c, 1 + args.n_w_basis, args.n_basis)

\* a frame out of the domain whose denominator is not zero and depends on
\* w_basis, and whose unmasked correction would not be zero
C3_Witness ==
    /\ AtFrame("aftcast_transform")
    /\ ~loc.frame.d_b
    /\ args.n_w_basis >= 1
    /\ aftcast_com(args.coeffs, loc.frame.x_w) \notin {F(0), args.coeffs[1]}
    /\ LinComb(loc.frame.x_b, args.coeffs, 1 + args.n_w_basis, args.n_basis) # F(0)
    /\ loc.frame.out = loc.frame.g_b

\* C5: reweight_transform returns 0 at every frame whose weight is 0, and in
\* general weight[frame] * (coeffs[0] + basis[frame] . coeffs[1:]).
C5_ReweightTransform ==
    AtFrame("reweight_transform") =>
        LET fr == loc.frame
            c == args.coeffs
        IN /\ fr.w = F(0) => fr.out = F(0)
           /\ fr.out = FMul(fr.w, FAdd(c[1], LinComb(fr.x_w, c, 1, args.n_basis)))

\* a frame of weight 0 whose factor coeffs[0] + basis . coeffs[1:] is not zero
C5_Witness ==
    /\ AtFrame("reweight_transform")
    /\ loc.frame.w = F(0)
    /\ args.coeffs[1] # F(0)
    /\ reweight_transform(args.coeffs, loc.frame.x_w, F(1)) # F(0)
    /\ loc.frame.out = F(0)

----------------------------------------------------------------------------
(* Linear algebra used by the solvers and by the extended engine.          *)
(* A matrix is a sequence of rows.                                         *)

Rows(A) == Len(A)
Zeros(n, k) == [i \in 1..n |-> [j \in 1..k |-> F(0)]]
Transpose(A, k) == [j \in 1..k |-> [i \in 1..Len(A) |-> A[i][j]]]
MatAdd(A, B) == [i \in 1..Len(A) |-> [j \in 1..Len(A[i]) |-> FAdd(A[i][j], B[i][j])]]
MatSub(A, B) == [i \in 1..Len(A) |-> [j \in 1..Len(A[i]) |-> FSub(A[i][j], B[i][j])]]
MatMul(A, B) ==
    [i \in 1..Len(A) |->
        [j \in 1..Len(B[1]) |-> FSum([k \in 1..Len(B) |-> FMul(A[i][k], B[k][j])])]]
MatVec(A, v) == [i \in 1..Len(A) |-> Dot(A[i], v)]

\* A without row i and column j
Minor(A, i, j) ==
    [r \in 1..(Len(A) - 1) |->
        [c \in 1..(Len(A) - 1) |->
            A[IF r < i THEN r ELSE r + 1][IF c < j THEN c ELSE c + 1]]]

RECURSIVE Det(_)
Det(A) ==
    IF Len(A) = 0 THEN F(1)
    ELSE FSum([j \in 1..Len(A) |->
                 FMul(IF j % 2 = 1 THEN A[1][j] ELSE FNeg(A[1][j]), Det(Minor(A, 1, j)))])

ReplaceCol(A, j, v) == [r \in 1..Len(A) |-> [c \in 1..Len(A) |-> IF c = j THEN v[r] ELSE A[r][c]]]

LinAlgError == [ok |-> FALSE]

\* linalg.solve(A, b) for a vector b: the solution of A x = b, or an error
\* when A is singular
solve(A, b) ==
    LET dt == Det(A)
    IN IF dt = F(0) THEN LinAlgError
       ELSE [ok |-> TRUE, x |-> [j \in 1..Len(A) |-> FDiv(Det(ReplaceCol(A, j, b)), dt)]]

\* sum of the entries of a sequence of integers
RECURSIVE SumTo(_, _)
SumTo(s, n) == IF n = 0 THEN 0 ELSE SumTo(s, n - 1) + s[n]
Sum(s) == SumTo(s, Len(s))

\* A @ B for square matrices whose entries are integers
IMatMul(A, B) ==
    [i \in 1..Len(A) |-> [j \in 1..Len(A) |-> Sum([k \in 1..Len(A) |-> A[i][k] * B[k][j]])]]

\* moving_matmul(r, window) for 1 <= window <= len(r): the window-fold products
\* of consecutive matrices, each formed by halving the window
RECURSIVE WindowProduct(_, _, _)
WindowProduct(r, k, window) ==
    IF window = 1 THEN r[k]
    ELSE LET h == window \div 2
         IN IMatMul(WindowProduct(r, k, h), WindowProduct(r, k + h, window - h))

\* variant: each window is multiplied in reverse order
RECURSIVE ReversedProduct(_, _, _)
ReversedProduct(r, k, n) ==
    IF n = 1 THEN r[k] ELSE IMatMul(r[k + n - 1], ReversedProduct(r, k, n - 1))
moving_matmul_reversed(r, window) ==
    [k \in 1..(Len(r) - window + 1) |-> ReversedProduct(r, k, window)]

moving_matmul(r, window) ==
    [k \in 1..(Len(r) - window + 1) |-> WindowProduct(r, k, window)]

----------------------------------------------------------------------------
(* Extended process engine (_xdga.py).  Frames and transitions are         *)
(* numbered from 1: transition n goes from frame n to frame n + 1.         *)
(* m[i][j][n], f[i][j][n] for transitions; d[i][t], g[i][t], y[i][t] for   *)
(* frames.  The arrays hold integers, so every sum and product up to the   *)
(* linear solve is exact; the basis has one function (n_basis = 1), so     *)
(* y[i][t] is a number and a, b are numbers.                               *)

\* variant: rows outside the domain keep their transition weights
forward_r_unstopped(ni, nt, m, d, f, g) ==
    [n \in 1..nt |->
        [i \in 1..(ni + 1) |->
            [j \in 1..(ni + 1) |->
                IF i = ni + 1 THEN (IF j = ni + 1 THEN 1 ELSE 0)
                ELSE IF j <= ni THEN m[i][j][n]
                     ELSE IF d[i][n]
                          THEN Sum([jj \in 1..ni |-> m[i][jj][n] * f[i][jj][n]])
                          ELSE g[i][n]]]]

\* variant: the corner r[n, ni, ni] is left at zero
forward_r_without_corner(ni, nt, m, d, f, g) ==
    [n \in 1..nt |->
        [i \in 1..(ni + 1) |->
            [j \in 1..(ni + 1) |->
                IF i = ni + 1 THEN 0
                ELSE IF d[i][n]
                     THEN (IF j <= ni THEN m[i][j][n]
                           ELSE Sum([jj \in 1..ni |-> m[i][jj][n] * f[i][jj][n]]))
                     ELSE (IF j <= ni THEN 0 ELSE g[i][n])]]]

\* the per-transition matrices of _forward_transitions_helper
forward_r(ni, nt, m, d, f, g) ==
    [n \in 1..nt |->
        [i \in 1..(ni + 1) |->
            [j \in 1..(ni + 1) |->
                IF i = ni + 1 THEN (IF j = ni + 1 THEN 1 ELSE 0)
                ELSE IF d[i][n]
                     THEN (IF j <= ni THEN m[i][j][n]
                           ELSE Sum([jj \in 1..ni |-> m[i][jj][n] * f[i][jj][n]]))
                     ELSE (IF j <= ni THEN 0 ELSE g[i][n])]]]

\* variant: the per-transition matrices are not composed over lag steps
_forward_transitions_helper_single_step(ni, nt, m, d, f, g, lag) ==
    moving_matmul(forward_r(ni, nt, m, d, f, g), 1)

_forward_transitions_helper(ni, nt, m, d, f, g, lag) ==
    moving_matmul(forward_r(ni, nt, m, d, f, g), lag)

\* variant: in_domain and guess are read at frame n, as in the forward helper
backward_r_unshifted(ni, nt, m, d, f, g) ==
    [n \in 1..nt |->
        [i \in 1..(ni + 1) |->
            [j \in 1..(ni + 1) |->
                IF j = ni + 1 THEN (IF i = ni + 1 THEN 1 ELSE 0)
                ELSE IF d[j][n]
                     THEN (IF i <= ni THEN m[i][j][n]
                           ELSE Sum([ii \in 1..ni |-> m[ii][j][n] * f[ii][j][n]]))
                     ELSE (IF i <= ni THEN 0 ELSE g[j][n])]]]

\* the per-transition matrices of _backward_transitions_helper
backward_r(ni, nt, m, d, f, g) ==
    [n \in 1..nt |->
        [i \in 1..(ni + 1) |->
            [j \in 1..(ni + 1) |->
                IF j = ni + 1 THEN (IF i = ni + 1 THEN 1 ELSE 0)
                ELSE IF d[j][n + 1]
                     THEN (IF i <= ni THEN m[i][j][n]
                           ELSE Sum([ii \in 1..ni |-> m[ii][j][n] * f[ii][j][n]]))
                     ELSE (IF i <= ni THEN 0 ELSE g[j][n + 1])]]]

_backward_transitions_helper(ni, nt, m, d, f, g, lag) ==
    moving_matmul(backward_r(ni, nt, m, d, f, g), lag)

\* np.all(w[-lag:] == 0.0): the slice w[-lag:] is the whole of w when lag = 0
\* or lag >= len(w)
\* variant: the last lag frames even when lag = 0
WeightTailIsZero_lastlag(w, lag) ==
    \A t \in (Len(w) - lag + 1)..Len(w) : w[t] = 0

WeightTailIsZero(w, lag) ==
    LET start == IF lag = 0 \/ lag >= Len(w) THEN 1 ELSE Len(w) - lag + 1
    IN \A t \in start..Len(w) : w[t] = 0

\* one trajectory's contribution to (a, b) in forward_extended_feynman_kac;
\* the sums over t are the products wx.T @ yi and wx.T @ gi
ForwardContribution(x, y, w, m, d, f, g, ni, nt, lag) ==
    LET M == _forward_transitions_helper(ni, nt, m, d, f, g, lag)
        nT == nt + 1 - lag
        wx(i, t) == w[t] * x[i][t]
        yi(i, t) == Sum([j \in 1..ni |-> M[t][i][j] * y[j][t + lag]]) - y[i][t]
        gi(i, t) == Sum([j \in 1..ni |-> M[t][i][j] * g[j][t + lag]]) + M[t][i][ni + 1]
                    - g[i][t]
    IN [a |-> Sum([i \in 1..ni |-> Sum([t \in 1..nT |-> wx(i, t) * yi(i, t)])]),
        b |-> -Sum([i \in 1..ni |-> Sum([t \in 1..nT |-> wx(i, t) * gi(i, t)])])]

\* one trajectory's contribution to (a, b) in backward_extended_feynman_kac
BackwardContribution(x, y, w, m, d, f, g, ni, nt, lag) ==
    LET M == _backward_transitions_helper(ni, nt, m, d, f, g, lag)
        nT == nt + 1 - lag
        wx(i, t) == w[t] * x[i][t + lag]
        yi(i, t) == Sum([j \in 1..ni |-> M[t][j][i] * y[j][t]]) - y[i][t + lag]
        gi(i, t) == Sum([j \in 1..ni |-> M[t][j][i] * g[j][t]]) + M[t][ni + 1][i]
                    - g[i][t + lag]
    IN [a |-> Sum([i \in 1..ni |-> Sum([t \in 1..nT |-> wx(i, t) * yi(i, t)])]),
        b |-> -Sum([i \in 1..ni |-> Sum([t \in 1..nT |-> wx(i, t) * gi(i, t)])])]

\* variant: the guess is not added
transform_without_guess(coeffs, y, g) ==
    LET rows == IF Len(y) < Len(g) THEN Len(y) ELSE Len(g)
    IN [i \in 1..rows |-> [t \in 1..Len(g[i]) |-> FMul(F(y[i][t]), coeffs)]]

\* transform: one trajectory's output, a row per index paired by zip(y, g)
transform(coeffs, y, g) ==
    LET rows == IF Len(y) < Len(g) THEN Len(y) ELSE Len(g)
    IN [i \in 1..rows |->
          [t \in 1..Len(g[i]) |-> FAdd(FMul(F(y[i][t]), coeffs), F(g[i][t]))]]

----------------------------------------------------------------------------
(* Calls of the extended estimators.  The per-trajectory sequences have    *)
(* args.n entries each, except the one named by args.short, which has one  *)
(* less.  The committor and mfpt wrappers build function from weights, as  *)
(* np.zeros(len(weights)) or np.ones(len(weights)), so there function is   *)
(* as long as weights.  A trajectory's arrays are drawn when the statement *)
(* that reads them runs.                                                   *)

ExtendedFns == {"forward_extended_committor", "forward_extended_mfpt",
                "forward_extended_feynman_kac", "backward_extended_committor",
                "backward_extended_mfpt", "backward_extended_feynman_kac"}
ForwardFns == {"forward_extended_committor", "forward_extended_mfpt",
               "forward_extended_feynman_kac"}
CommittorFns == {"forward_extended_committor", "backward_extended_committor"}
MfptFns == {"forward_extended_mfpt", "backward_extended_mfpt"}
FeynmanKacFns == ExtendedFns \ (CommittorFns \cup MfptFns)

ListNames == {"basis", "weights", "transitions", "in_domain", "function", "guess"}
\* the sequences a call may pass one entry short
ShortNames == {"basis", "weights", "guess"}

Min(S) == CHOOSE v \in S : \A u \in S : v <= u
Max(S) == CHOOSE v \in S : \A u \in S : u <= v

ListLen(name) ==
    IF args.short = name \/ (name = "function" /\ args.short = "weights"
                                /\ args.fn \notin FeynmanKacFns)
    THEN args.n - 1 ELSE args.n
\* entries zip(test_basis, basis, weights, transitions, in_domain, function, guess) yields
ZipLen == Min({ListLen(name) : name \in ListNames})
\* entries zip(basis, guess) yields in transform
TransformLen == Min({ListLen("basis"), ListLen("guess")})

\* the arrays of one trajectory, from a few parameters
WeightArray(nt, z) == [t \in 1..(nt + 1) |-> IF t <= nt + 1 - z THEN 1 ELSE 0]
DomainArray(ni, nt, exit) ==
    [i \in 1..ni |-> [t \in 1..(nt + 1) |-> IF i % 2 = 1 THEN t <= exit ELSE t > exit]]
GuessArray(ni, nt, d) ==
    [i \in 1..ni |-> [t \in 1..(nt + 1) |-> IF d[i][t] THEN 0 ELSE t]]
BasisArray(ni, nt, d, yout) ==
    [i \in 1..ni |-> [t \in 1..(nt + 1) |-> IF d[i][t] THEN t ELSE yout]]
TransitionArray(ni, nt) ==
    [i \in 1..ni |-> [j \in 1..ni |-> [n \in 1..nt |-> IF i <= j THEN 1 ELSE 2]]]
\* np.full((ni, ni, nt), f)
Full(ni, nt, fv) == [i \in 1..ni |-> [j \in 1..ni |-> [n \in 1..nt |-> fv]]]

NoTraj == [none |-> TRUE]

InitX ==
    /\ pc = "zip"
    /\ \E fn \in ExtendedFns, lag \in 0..MaxNt, n \in 1..MaxTraj,
          short \in ShortNames \cup {"none"} :
          /\ short # "none" => n >= 2
          /\ args = [fn |-> fn, lag |-> lag, n |-> n, short |-> short]
    /\ loc = [k |-> 0, a |-> 0, b |-> 0, cur |-> NoTraj]
    /\ ret = [kind |-> "running"]

Raise(exc, line) ==
    /\ pc' = "failed"
    /\ ret' = [kind |-> exc, line |-> line]

\* the shapes lines 183-186 compare against
TransitionsShape(ni, nt) == <<ni, ni, nt>>
InDomainShape(ni, nt) == <<ni, nt + 1>>
FunctionShape(ni, nt) == <<ni, ni, nt>>
\* variant: the guess has one column per transition
GuessShape_transitions(ni, nt) == <<ni, nt>>
GuessShape(ni, nt) == <<ni, nt + 1>>

\* for ... in zip(...): the next trajectory, and `assert np.all(w[-lag:] == 0.0)`
XZipNext ==
    /\ pc = "zip" /\ loc.k < ZipLen
    /\ \E nt \in (IF args.lag = 0 THEN 1 ELSE args.lag)..MaxNt, z \in 0..(MaxNt + 1) :
          /\ z <= nt + 1
          /\ LET w == WeightArray(nt, z)
                 cur == [w |-> w]
             IN IF WeightTailIsZero(w, args.lag)
                THEN /\ pc' = "assert_m"
                     /\ loc' = [loc EXCEPT !.cur = cur]
                     /\ UNCHANGED ret
                ELSE /\ Raise("AssertionError", 176)
                     /\ loc' = [k |-> loc.k, cur |-> cur]
    /\ UNCHANGED args

\* ni, _, nt = m.shape ... assert m.shape == (ni, ni, nt)
XAssertM ==
    /\ pc = "assert_m"
    /\ \E ni \in 1..MaxNi, ni2 \in 1..MaxNi :
          LET nt == Len(loc.cur.w) - 1
              cur == [w |-> loc.cur.w, ni |-> ni, nt |-> nt, m_shape |-> <<ni, ni2, nt>>]
          IN IF cur.m_shape = TransitionsShape(ni, nt)
             THEN /\ pc' = "assert_d"
                  /\ loc' = [loc EXCEPT !.cur = cur]
                  /\ UNCHANGED ret
             ELSE /\ Raise("AssertionError", 183)
                  /\ loc' = [k |-> loc.k, cur |-> cur]
    /\ UNCHANGED args

\* assert d.shape == (ni, nt + 1)
XAssertD ==
    /\ pc = "assert_d"
    /\ \E r \in 1..MaxNi, c \in 1..(MaxNt + 1) :
          LET cur == [w |-> loc.cur.w, ni |-> loc.cur.ni, nt |-> loc.cur.nt,
                      m_shape |-> loc.cur.m_shape, d_shape |-> <<r, c>>]
          IN IF cur.d_shape = InDomainShape(cur.ni, cur.nt)
             THEN /\ pc' = "assert_f"
                  /\ loc' = [loc EXCEPT !.cur = cur]
                  /\ UNCHANGED ret
             ELSE /\ Raise("AssertionError", 184)
                  /\ loc' = [k |-> loc.k, cur |-> cur]
    /\ UNCHANGED args

\* the shapes function[k] can have: << >> is a scalar (np.ndim(f) == 0); the
\* wrappers pass the scalars of np.zeros(len(weights)) or np.ones(len(weights))
FunctionShapes ==
    IF args.fn \in FeynmanKacFns
    THEN {<< >>} \cup {<<r, r2, c>> : r \in 1..MaxNi, r2 \in 1..MaxNi, c \in 1..MaxNt}
    ELSE {<< >>}

\* if np.ndim(f) == 0: f = np.full((ni, ni, nt), f) ... assert f.shape == (ni, ni, nt)
XAssertF ==
    /\ pc = "assert_f"
    /\ \E given \in FunctionShapes :
          LET shape == IF given = << >> THEN <<loc.cur.ni, loc.cur.ni, loc.cur.nt>> ELSE given
              cur == [w |-> loc.cur.w, ni |-> loc.cur.ni, nt |-> loc.cur.nt,
                      m_shape |-> loc.cur.m_shape, d_shape |-> loc.cur.d_shape,
                      f_given |-> given, f_shape |-> shape]
          IN IF shape = FunctionShape(cur.ni, cur.nt)
             THEN /\ pc' = "assert_g"
                  /\ loc' = [loc EXCEPT !.cur = cur]
                  /\ UNCHANGED ret
             ELSE /\ Raise("AssertionError", 185)
                  /\ loc' = [k |-> loc.k, cur |-> cur]
    /\ UNCHANGED args

\* assert g.shape == (ni, nt + 1)
XAssertG ==
    /\ pc = "assert_g"
    /\ \E r \in 1..MaxNi, c \in 1..(MaxNt + 1) :
          LET cur == [w |-> loc.cur.w, ni |-> loc.cur.ni, nt |-> loc.cur.nt,
                      m_shape |-> loc.cur.m_shape, d_shape |-> loc.cur.d_shape,
                      f_given |-> loc.cur.f_given, f_shape |-> loc.cur.f_shape,
                      g_shape |-> <<r, c>>]
          IN IF cur.g_shape = GuessShape(cur.ni, cur.nt)
             THEN /\ pc' = "body"
                  /\ loc' = [loc EXCEPT !.cur = cur]
                  /\ UNCHANGED ret
             ELSE /\ Raise("AssertionError", 186)
                  /\ loc' = [k |-> loc.k, cur |-> cur]
    /\ UNCHANGED args

\* the values function[k] can have
FunctionVals ==
    IF args.fn \in CommittorFns THEN {0}
    ELSE IF args.fn \in MfptFns THEN {1}
    ELSE {2}

\* the helper, the loop over i and j, and `a += wx.T @ yi`, `b -= wx.T @ gi`.
\* With lag = 0 the slices [:-lag] are empty while [lag:] are whole: the call
\* raises in moving_matmul(r, 0) (inside the helper), in scale_rows, or at the
\* latest in the subtraction `yi -= ...`, which cannot broadcast.
XBody ==
    /\ pc = "body"
    /\ IF args.lag = 0
       THEN /\ \E line \in (IF args.fn \in ForwardFns THEN {188, 202} ELSE {399, 403, 413}) :
                  Raise("Exception", line)
            /\ loc' = [k |-> loc.k, cur |-> loc.cur]
       ELSE \E exit \in 0..(MaxNt + 1), yout \in {0, 1}, fv \in FunctionVals :
               /\ exit <= loc.cur.nt + 1
               /\ LET ni == loc.cur.ni
                      nt == loc.cur.nt
                      d == DomainArray(ni, nt, exit)
                      g == GuessArray(ni, nt, d)
                      y == BasisArray(ni, nt, d, yout)
                      m == TransitionArray(ni, nt)
                      f == Full(ni, nt, fv)
                      c == IF args.fn \in ForwardFns
                           THEN ForwardContribution(y, y, loc.cur.w, m, d, f, g, ni, nt, args.lag)
                           ELSE BackwardContribution(y, y, loc.cur.w, m, d, f, g, ni, nt, args.lag)
                  IN loc' = [k |-> loc.k + 1, a |-> loc.a + c.a, b |-> loc.b + c.b,
                             cur |-> NoTraj]
               /\ pc' = "zip"
               /\ UNCHANGED ret
    /\ UNCHANGED args

\* coeffs = linalg.solve(a, b)
XSolve ==
    /\ pc = "zip" /\ loc.k = ZipLen
    /\ LET sol == solve(<<<<F(loc.a)>>>>, <<F(loc.b)>>)
       IN IF sol.ok
          THEN /\ pc' = "transform"
               /\ loc' = [k |-> loc.k, coeffs |-> sol.x[1], j |-> 0, cur |-> NoTraj]
               /\ UNCHANGED ret
          ELSE /\ Raise("LinAlgError", IF args.fn \in ForwardFns THEN 208 ELSE 419)
               /\ loc' = [k |-> loc.k, cur |-> NoTraj]
    /\ UNCHANGED args

\* transform: the output array of the next pair of zip(basis, guess)
XTransform ==
    /\ pc = "transform" /\ loc.j < TransformLen
    /\ \E nt \in 1..MaxNt, ni \in 1..MaxNi, yout \in {0, 1} :
          /\ LET d == DomainArray(ni, nt, 1)
                 g == GuessArray(ni, nt, d)
                 y == BasisArray(ni, nt, d, yout)
             IN loc' = [loc EXCEPT !.j = @ + 1,
                                   !.cur = [nt |-> nt, ni |-> ni, d |-> d, g |-> g, y |-> y,
                                            out |-> transform(loc.coeffs, y, g)]]
    /\ UNCHANGED <<pc, args, ret>>

\* return transform(coeffs, basis, guess)
XReturn ==
    /\ pc = "transform" /\ loc.j = TransformLen
    /\ pc' = "done"
    /\ ret' = [kind |-> "ok", len |-> loc.j]
    /\ loc' = [k |-> loc.k, coeffs |-> loc.coeffs, j |-> loc.j, cur |-> NoTraj]
    /\ UNCHANGED args

NextX ==
    \/ XZipNext
    \/ XAssertM
    \/ XAssertD
    \/ XAssertF
    \/ XAssertG
    \/ XBody
    \/ XSolve
    \/ XTransform
    \/ XReturn

SpecX == InitX /\ [][NextX]_vars

----------------------------------------------------------------------------
(* Properties of the extended estimators (SpecX)                          *)

\* the trajectory whose output array XTransform has just built
AtOutput == pc = "transform" /\ loc.j >= 1
OutFrames == {<<i, t>> : i \in 1..MaxNi, t \in 1..(MaxNt + 1)}
InOutput(p) == p[1] <= loc.cur.ni /\ p[2] <= loc.cur.nt + 1

\* C4 as stated: at every (index i, frame) where in_domain[i, frame] is false
\* the output of an extended estimator equals guess[i][frame], whatever the
\* basis holds there.
C4_GuessKeptOutsideDomain ==
    AtOutput =>
        \A p \in OutFrames :
            (InOutput(p) /\ ~loc.cur.d[p[1]][p[2]])
                => loc.cur.out[p[1]][p[2]] = F(loc.cur.g[p[1]][p[2]])

\* C4, amended: the output of an extended estimator at (i, frame) is
\* guess[i][frame] plus coeffs times basis[i][frame], in and out of the domain
\* alike; where in_domain[i, frame] is false it equals guess[i][frame] when the
\* basis is zero there.
C4_ExtendedTransform ==
    AtOutput =>
        \A p \in OutFrames :
            InOutput(p) =>
                LET y == loc.cur.y[p[1]][p[2]]
                    g == loc.cur.g[p[1]][p[2]]
                    out == loc.cur.out[p[1]][p[2]]
                IN /\ IsFinite(out)
                   /\ out[1] * loc.coeffs[2] = out[2] * (y * loc.coeffs[1] + g * loc.coeffs[2])
                   /\ (~loc.cur.d[p[1]][p[2]] /\ y = 0) => out = F(g)

\* an out-of-domain frame with zero basis and nonzero guess, transformed with
\* a nonzero coefficient: the output is the guess
C4_Witness ==
    /\ AtOutput
    /\ loc.coeffs # F(0)
    /\ \E p \in OutFrames :
          /\ InOutput(p)
          /\ ~loc.cur.d[p[1]][p[2]]
          /\ loc.cur.y[p[1]][p[2]] = 0
          /\ loc.cur.g[p[1]][p[2]] # 0
          /\ loc.cur.out[p[1]][p[2]] = F(loc.cur.g[p[1]][p[2]])

\* the trajectory the loop is at has had its weights read
HasWeights == "w" \in DOMAIN loc.cur
FailedAt(exc, line) == pc = "failed" /\ ret = [kind |-> exc, line |-> line]
\* some weight among the last lag frames is nonzero
NonzeroInLast(w, lag) == \E t \in 1..Len(w) : t > Len(w) - lag /\ w[t] # 0

C9_OneOutputPerTrajectory ==
    pc = "done" => ret.len = ListLen("basis")

\* the linear solve of line 208 (419) has been invoked
Solved ==
    \/ pc \in {"transform", "done"}
    \/ pc = "failed" /\ ret.kind = "LinAlgError"
\* the trajectories of the call: the entries of the longest per-trajectory list
NumTrajectories == Max({ListLen(name) : name \in ListNames})

\* C22: the linear solve is invoked only after every trajectory has passed its
\* assertions and contributed to a and b, and a call in which a precondition
\* failed has reached neither the solve nor the transform.
C22_SolveAfterEveryTrajectory ==
    /\ Solved => loc.k = NumTrajectories
    /\ (pc = "failed" /\ ret.kind = "AssertionError") => "coeffs" \notin DOMAIN loc

\* C22, for the trajectories the loop reaches: the solve is invoked only after
\* every entry that zip yields has passed its assertions and contributed, and
\* a call in which an assertion failed has no coefficients and no result.
C22_SolveAfterZippedTrajectories ==
    /\ Solved => loc.k = ZipLen
    /\ pc \in {"assert_m", "assert_d", "assert_f", "assert_g", "body"} => loc.k < ZipLen
    /\ (pc = "failed" /\ ret.kind \in {"AssertionError", "Exception"}) =>
          "coeffs" \notin DOMAIN loc /\ ret.kind # "ok"

\* C22: the solve is invoked at most once: after it the loop is not entered
\* again and the coefficients do not change.
C22_SolveAtMostOnce ==
    [][Solved => /\ pc' \in {"transform", "done", "failed"}
                 /\ pc \in {"transform", "done"} => pc' # "failed" /\ loc'.coeffs = loc.coeffs]_vars

----------------------------------------------------------------------------
(* Calls of moving_matmul and of the two transition helpers (SpecM)        *)

MaxMats == 3

\* left-to-right product r[k] @ r[k+1] @ ... @ r[k+n-1]
RECURSIVE OrderedProduct(_, _, _)
OrderedProduct(r, k, n) ==
    IF n = 1 THEN r[k] ELSE IMatMul(OrderedProduct(r, k, n - 1), r[k + n - 1])

\* square matrices that do not commute with one another
TestMatrix(p) == <<<<p, 1>>, <<0, 1>>>>
TestMatrices == {TestMatrix(p) : p \in 0..2}
MatrixSeqs(n) == [1..n -> TestMatrices]

HelperFns == {"_forward_transitions_helper", "_backward_transitions_helper"}

\* function values that differ by i, j and n when vary = 1
FunctionArray(ni, nt, fv, vary) ==
    [i \in 1..ni |-> [j \in 1..ni |-> [n \in 1..nt |-> fv + vary * (i + 2 * j + 3 * n)]]]

\* in_domain as DomainArray, where with back the frames after exit + 1 are on
\* the side of the frames up to exit again
DomainPattern(ni, nt, exit, back) ==
    [i \in 1..ni |-> [t \in 1..(nt + 1) |->
        LET first == t <= exit \/ (back /\ t > exit + 1)
        IN IF i % 2 = 1 THEN first ELSE ~first]]

\* the arrays of a call of a helper
MDomain == DomainPattern(args.ni, args.nt, args.exit, args.back)
MGuess == GuessArray(args.ni, args.nt, MDomain)
MTransitions == TransitionArray(args.ni, args.nt)
MFunction == FunctionArray(args.ni, args.nt, args.fv, args.vary)

InitM ==
    /\ pc = "call"
    /\ \/ \E n \in 1..MaxMats, window \in 1..MaxMats :
             /\ window <= n
             /\ \E r \in MatrixSeqs(n) :
                   args = [fn |-> "moving_matmul", r |-> r, window |-> window]
       \/ \E fn \in HelperFns, ni \in 1..MaxNi, nt \in 1..MaxNt, lag \in 1..MaxNt,
             exit \in 0..(MaxNt + 1), fv \in 0..2, vary \in {0, 1}, back \in BOOLEAN :
             /\ lag <= nt /\ exit <= nt + 1
             /\ args = [fn |-> fn, ni |-> ni, nt |-> nt, lag |-> lag, exit |-> exit, fv |-> fv,
                        vary |-> vary, back |-> back]
    /\ loc = [r |-> << >>]
    /\ ret = [kind |-> "running"]

MovingMatmulCall ==
    /\ pc = "call" /\ args.fn = "moving_matmul"
    /\ loc' = [r |-> args.r]
    /\ ret' = [kind |-> "ok", value |-> moving_matmul(args.r, args.window)]
    /\ pc' = "done"
    /\ UNCHANGED args

ForwardHelperCall ==
    /\ pc = "call" /\ args.fn = "_forward_transitions_helper"
    /\ LET ni == args.ni
           nt == args.nt
           d == MDomain
           g == MGuess
           m == MTransitions
           f == MFunction
       IN /\ loc' = [r |-> forward_r(ni, nt, m, d, f, g)]
          /\ ret' = [kind |-> "ok",
                     value |-> _forward_transitions_helper(ni, nt, m, d, f, g, args.lag)]
    /\ pc' = "done"
    /\ UNCHANGED args

BackwardHelperCall ==
    /\ pc = "call" /\ args.fn = "_backward_transitions_helper"
    /\ LET ni == args.ni
           nt == args.nt
           d == MDomain
           g == MGuess
           m == MTransitions
           f == MFunction
       IN /\ loc' = [r |-> backward_r(ni, nt, m, d, f, g)]
          /\ ret' = [kind |-> "ok",
                     value |-> _backward_transitions_helper(ni, nt, m, d, f, g, args.lag)]
    /\ pc' = "done"
    /\ UNCHANGED args

NextM ==
    \/ MovingMatmulCall
    \/ ForwardHelperCall
    \/ BackwardHelperCall

SpecM == InitM /\ [][NextM]_vars

\* C10: moving_matmul on N matrices with 1 <= window <= N returns N - window + 1
\* matrices, the k-th being the in-order product of matrices k .. k + window - 1;
\* window = 1 returns the input; each helper returns nt - lag + 1 composites,
\* the in-order products of lag consecutive per-transition matrices.
C10_MovingMatmul ==
    pc = "done" =>
        LET r == loc.r
            window == IF args.fn = "moving_matmul" THEN args.window ELSE args.lag
            out == ret.value
        IN /\ Len(out) = Len(r) - window + 1
           /\ \A k \in 1..Len(out) : out[k] = OrderedProduct(r, k, window)
           /\ window = 1 => out = r
           /\ args.fn \in HelperFns => Len(r) = args.nt /\ Len(out) = args.nt - args.lag + 1

\* a forward helper call with lag 2 whose first two per-transition matrices do
\* not commute: the composite is the product in order
C10_Witness ==
    /\ pc = "done"
    /\ args.fn = "_forward_transitions_helper"
    /\ args.lag = 2
    /\ IMatMul(loc.r[1], loc.r[2]) # IMatMul(loc.r[2], loc.r[1])
    /\ ret.value[1] = IMatMul(loc.r[1], loc.r[2])

\* C11: for a window W = L1 + L2 - 1 and every start k, moving_matmul(M, W)[k]
\* is moving_matmul(M, L1)[k] times, on the right, the in-order product of the
\* remaining W - L1 matrices, which is moving_matmul(M, L2 - 1)[k + L1] when
\* L2 >= 2; every split of the window gives the same matrix.
C11_CompositionLaw ==
    (pc = "done" /\ args.fn = "moving_matmul") =>
        \A L1 \in 1..args.window : \A k \in 1..Len(ret.value) :
            LET head == moving_matmul(args.r, L1)[k]
                rest == args.window - L1
            IN /\ ret.value[k] = IF rest = 0 THEN head
                                 ELSE IMatMul(head, moving_matmul(args.r, rest)[k + L1])
               /\ rest >= 1 => moving_matmul(args.r, rest)[k + L1]
                                   = OrderedProduct(args.r, k + L1, rest)

\* a window of three matrices that do not commute, split after the first and
\* after the second matrix
C11_Witness ==
    /\ pc = "done" /\ args.fn = "moving_matmul" /\ args.window = 3
    /\ IMatMul(args.r[1], args.r[2]) # IMatMul(args.r[2], args.r[1])
    /\ IMatMul(args.r[2], args.r[3]) # IMatMul(args.r[3], args.r[2])
    /\ ret.value[1] = IMatMul(args.r[1], moving_matmul(args.r, 2)[2])
    /\ ret.value[1] = IMatMul(moving_matmul(args.r, 2)[1], args.r[3])

HelperDone(fn) == pc = "done" /\ args.fn = fn
UnitRow(n) == [j \in 1..n |-> IF j = n THEN 1 ELSE 0]

\* C16: _forward_transitions_helper builds for every transition n an
\* (ni+1) x (ni+1) matrix r[n]: for i < ni, when in_domain[i, n] holds
\* r[n][i, j] = m[i, j, n] and r[n][i, ni] = sum_j m[i, j, n] * f[i, j, n],
\* otherwise r[n][i, j] = 0 and r[n][i, ni] = g[i, n]; row ni is (0, ..., 0, 1).
C16_ForwardPerTransition ==
    HelperDone("_forward_transitions_helper") =>
        LET ni == args.ni
            r == loc.r
        IN /\ Len(r) = args.nt
           /\ \A n \in 1..args.nt :
                 /\ Len(r[n]) = ni + 1
                 /\ \A i \in 1..(ni + 1) : Len(r[n][i]) = ni + 1
                 /\ r[n][ni + 1] = UnitRow(ni + 1)
                 /\ \A i \in 1..ni :
                       IF MDomain[i][n]
                       THEN /\ \A j \in 1..ni : r[n][i][j] = MTransitions[i][j][n]
                            /\ r[n][i][ni + 1]
                                  = Sum([j \in 1..ni |-> MTransitions[i][j][n] * MFunction[i][j][n]])
                       ELSE /\ \A j \in 1..ni : r[n][i][j] = 0
                            /\ r[n][i][ni + 1] = MGuess[i][n]

\* the forward helper has built a matrix with a row in the domain, holding
\* unequal transition weights and a nonzero integral, and a row outside it,
\* holding a nonzero guess, for a function that varies with i, j and n
C16_Witness ==
    /\ HelperDone("_forward_transitions_helper")
    /\ args.ni = 2 /\ args.vary = 1
    /\ \E n \in 1..args.nt :
          /\ MDomain[2][n] /\ ~MDomain[1][n]
          /\ loc.r[n][2][1] # loc.r[n][2][2]
          /\ loc.r[n][2][3] # 0
          /\ loc.r[n][1] = <<0, 0, MGuess[1][n]>> /\ MGuess[1][n] # 0

\* m[j, i, n] and f[j, i, n]; in_domain and guess one frame later
IndexTransposed(m) ==
    [i \in 1..Len(m) |-> [j \in 1..Len(m) |-> [n \in 1..Len(m[j][i]) |-> m[j][i][n]]]]
ShiftedLater(d) == [i \in 1..Len(d) |-> [n \in 1..(Len(d[i]) - 1) |-> d[i][n + 1]]]

\* C17: the matrix _backward_transitions_helper builds for transition n is the
\* transpose of the matrix _forward_transitions_helper builds for transition n
\* from m[j, i, n], f[j, i, n] and from in_domain and guess shifted one frame
\* later: it tests in_domain at frame n + 1, fills column j, and puts integral
\* and boundary values into row ni.
C17_BackwardMirror ==
    HelperDone("_backward_transitions_helper") =>
        LET ni == args.ni
            fwd == forward_r(ni, args.nt, IndexTransposed(MTransitions), ShiftedLater(MDomain),
                             IndexTransposed(MFunction), ShiftedLater(MGuess))
        IN /\ Len(loc.r) = args.nt
           /\ \A n \in 1..args.nt :
                 /\ loc.r[n] = Transpose(fwd[n], ni + 1)
                 /\ \A j \in 1..ni :
                       IF MDomain[j][n + 1]
                       THEN loc.r[n][ni + 1][j]
                               = Sum([i \in 1..ni |-> MTransitions[i][j][n] * MFunction[i][j][n]])
                       ELSE loc.r[n][ni + 1][j] = MGuess[j][n + 1]

\* the backward helper has built a matrix for a transition whose two frames
\* lie on different sides of the domain, with unequal weights in a column and
\* a function that varies with i, j and n; reading in_domain at frame n would
\* give another matrix
C17_Witness ==
    /\ HelperDone("_backward_transitions_helper")
    /\ args.ni = 2 /\ args.vary = 1
    /\ \E n \in 1..args.nt :
          /\ MDomain[1][n] # MDomain[1][n + 1]
          /\ \E j \in 1..2 : MDomain[j][n + 1] /\ loc.r[n][1][j] # loc.r[n][2][j]
          /\ loc.r[n] # backward_r_unshifted(2, args.nt, MTransitions, MDomain, MFunction,
                                             MGuess)[n]

\* f[0, 0, a] + ... + f[0, 0, b - 1] for 1-based transitions a .. b - 1
RECURSIVE IntegralOver(_, _)
IntegralOver(a, b) == IF b <= a THEN 0 ELSE IntegralOver(a, b - 1) + MFunction[1][1][b - 1]
ExitsAfter(t) == {s \in (t + 1)..(t + args.lag - 1) : ~MDomain[1][s]}

C19_AbsorbingBoundary ==
    (pc = "done" /\ args.fn \in HelperFns) =>
        LET n1 == args.ni + 1
            Boundary(A) == IF args.fn = "_forward_transitions_helper"
                           THEN A[n1] = UnitRow(n1)
                           ELSE [i \in 1..n1 |-> A[i][n1]] = UnitRow(n1)
        IN /\ \A n \in 1..args.nt : Boundary(loc.r[n])
           /\ \A t \in 1..Len(ret.value) : Boundary(ret.value[t])
           /\ \A w \in 1..args.lag : \A k \in 1..(args.nt - w + 1) :
                 /\ Boundary(moving_matmul(loc.r, w)[k])
                 /\ Boundary(OrderedProduct(loc.r, k, w))

\* a backward helper call with lag 2 and ni = 2 has returned a composite with
\* integral or boundary values in row ni and the unit boundary column
C19_Witness ==
    /\ HelperDone("_backward_transitions_helper")
    /\ args.ni = 2 /\ args.lag = 2
    /\ ret.value[1][3] \notin {<<0, 0, 1>>}
    /\ [i \in 1..3 |-> ret.value[1][i][3]] = <<0, 0, 1>>

----------------------------------------------------------------------------
(* Generator and coefficient solvers (memory/_dga.py, lines 856-936)      *)

MaxMem == 1
MaxLag == 2

\* linalg.solve(A, B) for a matrix B, column by column
solve_columns(A, B) ==
    IF Det(A) = F(0) THEN LinAlgError
    ELSE LET col(j) == solve(A, [i \in 1..Len(B) |-> B[i][j]]).x
         IN [ok |-> TRUE, x |-> [i \in 1..Len(A) |-> [j \in 1..Len(B[1]) |-> col(j)[i]]]]

\* A[r1:r2, c1:c2] and A[r1:r2, c], rows and columns numbered from 1, ends included
Block(A, r1, r2, c1, c2) ==
    [i \in 1..(r2 - r1 + 1) |-> [j \in 1..(c2 - c1 + 1) |-> A[r1 + i - 1][c1 + j - 1]]]
Column(A, r1, r2, c) == [i \in 1..(r2 - r1 + 1) |-> A[r1 + i - 1][c]]
NegVec(v) == [i \in 1..Len(v) |-> FNeg(v[i])]

\* sum(mems): the sum of the first k memory matrices, starting from zero
RECURSIVE SumMems(_, _, _)
SumMems(mems, k, n) ==
    IF k = 0 THEN Zeros(n, n) ELSE MatAdd(SumMems(mems, k - 1, n), mems[k])

\* mats[1] - mats[0] + sum(mems)
\* variant: mats[0] is not subtracted
correlation_generator_without_subtraction(mats, mems) ==
    MatAdd(mats[2], SumMems(mems, Len(mems), Len(mats[1])))

correlation_generator(mats, mems) ==
    MatAdd(MatSub(mats[2], mats[1]), SumMems(mems, Len(mems), Len(mats[1])))

\* variant: the right-hand side is not negated
forward_coeffs_unsigned(mats, mems) ==
    LET gen == correlation_generator(mats, mems)
        n == Len(gen)
        sol == solve(Block(gen, 1, n - 1, 1, n - 1), Column(gen, 1, n - 1, n))
    IN IF sol.ok
       THEN [ok |-> TRUE, x |-> [j \in 1..n |-> IF j < n THEN sol.x[j] ELSE F(1)]]
       ELSE LinAlgError

\* forward_coeffs, given the matrices _memory.memory(mats) returned
forward_coeffs(mats, mems) ==
    LET gen == correlation_generator(mats, mems)
        n == Len(gen)
        sol == solve(Block(gen, 1, n - 1, 1, n - 1), NegVec(Column(gen, 1, n - 1, n)))
    IN IF sol.ok
       THEN [ok |-> TRUE, x |-> [j \in 1..n |-> IF j < n THEN sol.x[j] ELSE F(1)]]
       ELSE LinAlgError

\* variant: the boundary coordinate is the last index, as in forward_coeffs
backward_coeffs_last_boundary(mats, mems) ==
    LET n == Len(mats[1])
        gen == solve_columns(mats[1], correlation_generator(mats, mems))
    IN IF ~gen.ok THEN LinAlgError
       ELSE LET genT == Transpose(gen.x, n)
                inner == solve(Block(genT, 1, n - 1, 1, n - 1),
                               NegVec(Column(genT, 1, n - 1, n)))
            IN IF ~inner.ok THEN LinAlgError
               ELSE solve(Transpose(mats[1], n),
                          [j \in 1..n |-> IF j = n THEN F(1) ELSE inner.x[j]])

\* backward_coeffs, given the matrices _memory.memory(mats) returned
backward_coeffs(mats, mems) ==
    LET n == Len(mats[1])
        gen == solve_columns(mats[1], correlation_generator(mats, mems))
    IN IF ~gen.ok THEN LinAlgError
       ELSE LET genT == Transpose(gen.x, n)
                inner == solve(Block(genT, 2, n, 2, n), NegVec(Column(genT, 2, n, 1)))
            IN IF ~inner.ok THEN LinAlgError
               ELSE solve(Transpose(mats[1], n),
                          [j \in 1..n |-> IF j = 1 THEN F(1) ELSE inner.x[j - 1]])

\* variant: only the last index is dropped from the forward block, as in
\* forward_coeffs
integral_solve_keeps_first(mats, mems, dlag) ==
    LET n == Len(mats[1])
        gen == solve_columns(mats[1], correlation_generator(mats, mems))
    IN IF ~gen.ok THEN LinAlgError
       ELSE LET genT == Transpose(gen.x, n)
                fsol == solve(Block(gen.x, 1, n - 2, 1, n - 2),
                              NegVec(Column(gen.x, 1, n - 2, n)))
                bsol == solve(Block(genT, 2, n - 1, 2, n - 1),
                              NegVec(Column(genT, 2, n - 1, 1)))
            IN IF ~fsol.ok \/ ~bsol.ok THEN LinAlgError
               ELSE LET f == [j \in 1..(n - 1) |-> IF j < n - 1 THEN fsol.x[j] ELSE F(1)]
                        b == [i \in 1..(n - 1) |-> IF i = 1 THEN F(1) ELSE bsol.x[i - 1]]
                    IN [ok |-> TRUE, gen |-> gen.x, f |-> f, b |-> b,
                        x |-> FDiv(Dot(b, MatVec(Block(gen.x, 1, n - 1, 2, n), f)),
                                   F(dlag))]

\* integral_solve after its assertions, given the matrices _memory.memory(mats)
\* returned and dlag = lag // (mem + 1)
integral_solve(mats, mems, dlag) ==
    LET n == Len(mats[1])
        gen == solve_columns(mats[1], correlation_generator(mats, mems))
    IN IF ~gen.ok THEN LinAlgError
       ELSE LET genT == Transpose(gen.x, n)
                fsol == solve(Block(gen.x, 2, n - 1, 2, n - 1),
                              NegVec(Column(gen.x, 2, n - 1, n)))
                bsol == solve(Block(genT, 2, n - 1, 2, n - 1),
                              NegVec(Column(genT, 2, n - 1, 1)))
            IN IF ~fsol.ok \/ ~bsol.ok THEN LinAlgError
               ELSE LET f == [j \in 1..(n - 1) |-> IF j < n - 1 THEN fsol.x[j] ELSE F(1)]
                        b == [i \in 1..(n - 1) |-> IF i = 1 THEN F(1) ELSE bsol.x[i - 1]]
                    IN [ok |-> TRUE, gen |-> gen.x, f |-> f, b |-> b,
                        x |-> FDiv(Dot(b, MatVec(Block(gen.x, 1, n - 1, 2, n), f)),
                                   F(dlag))]

----------------------------------------------------------------------------
(* Calls of the solvers on small correlation matrices (SpecG)             *)

SolverFns == {"forward_coeffs", "backward_coeffs", "integral_solve"}

\* n x n correlation matrices with small integer entries
CorrelationMatrix(n, p) ==
    [i \in 1..n |-> [j \in 1..n |->
        F(IF p = 0 THEN (IF i = j THEN 1 ELSE 0) ELSE ((p * i + (p + 1) * j + i * j) % 3) - (p % 2))]]
MatrixParams == 0..4
CorrelationMatrices(n) == {CorrelationMatrix(n, p) : p \in MatrixParams}

\* _memory.memory(mats): len(mats) - 2 matrices
memory(mats) ==
    IF Len(mats) = 2 THEN {<< >>}
    ELSE [1..(Len(mats) - 2) -> {CorrelationMatrix(Len(mats[1]), p) : p \in {1, 2}}]

InitG ==
    /\ pc = "enter"
    /\ \E fn \in SolverFns, n \in 2..3, nmats \in 2..(MaxMem + 2),
          C0 \in CorrelationMatrices(3), C1 \in CorrelationMatrices(3),
          lag \in 0..MaxLag, mem \in 0..MaxMem :
          /\ fn = "integral_solve" => n = 3
          /\ fn # "integral_solve" => lag = 1 /\ mem = nmats - 2
          /\ LET mats == [k \in 1..nmats |->
                            IF k = 1 THEN Block(C0, 1, n, 1, n)
                            ELSE IF k = 2 THEN Block(C1, 1, n, 1, n)
                            ELSE CorrelationMatrix(n, 1)]
             IN args = [fn |-> fn, mats |-> mats, lag |-> lag, mem |-> mem]
    /\ loc = [mems |-> << >>]
    /\ ret = [kind |-> "running"]

\* assert len(mats) == mem + 2 ... assert lag % (mem + 1) == 0
IntegralAsserts ==
    /\ pc = "enter" /\ args.fn = "integral_solve"
    /\ IF Len(args.mats) # args.mem + 2 THEN Raise("AssertionError", 880)
       ELSE IF args.lag % (args.mem + 1) # 0 THEN Raise("AssertionError", 881)
       ELSE pc' = "memory" /\ UNCHANGED ret
    /\ UNCHANGED <<args, loc>>

\* mems = _memory.memory(mats)
Memory ==
    /\ \/ pc = "enter" /\ args.fn # "integral_solve"
       \/ pc = "memory"
    /\ \E mems \in memory(args.mats) : loc' = [mems |-> mems]
    /\ pc' = "solve"
    /\ UNCHANGED <<args, ret>>

Returned(sol, line) ==
    IF sol.ok
    THEN pc' = "done" /\ ret' = [kind |-> "ok", value |-> sol.x]
    ELSE Raise("LinAlgError", line)

ForwardCoeffs ==
    /\ pc = "solve" /\ args.fn = "forward_coeffs"
    /\ Returned(forward_coeffs(args.mats, loc.mems), 912)
    /\ UNCHANGED <<args, loc>>

BackwardCoeffs ==
    /\ pc = "solve" /\ args.fn = "backward_coeffs"
    /\ Returned(backward_coeffs(args.mats, loc.mems), 932)
    /\ UNCHANGED <<args, loc>>

IntegralSolve ==
    /\ pc = "solve" /\ args.fn = "integral_solve"
    /\ LET sol == integral_solve(args.mats, loc.mems, args.lag \div (args.mem + 1))
       IN /\ Returned(sol, 884)
          /\ loc' = IF sol.ok THEN [mems |-> loc.mems, gen |-> sol.gen, f |-> sol.f, b |-> sol.b]
                    ELSE loc
    /\ UNCHANGED args

NextG ==
    \/ IntegralAsserts
    \/ Memory
    \/ ForwardCoeffs
    \/ BackwardCoeffs
    \/ IntegralSolve

SpecG == InitG /\ [][NextG]_vars

\* the single-lag generator C1 - C0 of a call
SingleLag == MatSub(args.mats[2], args.mats[1])
Size == Len(args.mats[1])
ReturnedFrom(fn) == pc = "done" /\ args.fn = fn /\ Len(args.mats) = 2

\* C1: with two matrices [C0, C1] no memory term is added, and what the solvers
\* return is the single-lag Galerkin solution: forward_coeffs returns c with
\* last entry 1 and (C1 - C0)[:-1, :] c = 0; backward_coeffs returns c with
\* (C0^T c)[0] = 1 and (c^T (C1 - C0))[1:] = 0; integral_solve returns
\* b . gen[:-1, 1:] . f / lag, where C0 gen = C1 - C0, f ends in 1 and solves
\* gen[1:-1, 1:] f = 0, b starts with 1 and solves b . gen[:-1, 1:-1] = 0.
C1_SingleLagGalerkin ==
    /\ (pc \in {"solve", "done"} /\ Len(args.mats) = 2) => loc.mems = << >>
    /\ ReturnedFrom("forward_coeffs") =>
          LET c == ret.value
          IN /\ c[Size] = F(1)
             /\ \A i \in 1..(Size - 1) : Dot(SingleLag[i], c) = F(0)
    /\ ReturnedFrom("backward_coeffs") =>
          LET c == ret.value
          IN /\ Dot(Transpose(args.mats[1], Size)[1], c) = F(1)
             /\ \A j \in 2..Size : Dot(Transpose(SingleLag, Size)[j], c) = F(0)
    /\ ReturnedFrom("integral_solve") =>
          LET gen == loc.gen
              block == Block(gen, 1, Size - 1, 2, Size)
          IN /\ \A i \in 1..Size : \A j \in 1..Size :
                   Dot(args.mats[1][i], Transpose(gen, Size)[j]) = SingleLag[i][j]
             /\ loc.f[Size - 1] = F(1)
             /\ \A i \in 2..(Size - 1) : Dot(block[i], loc.f) = F(0)
             /\ loc.b[1] = F(1)
             /\ \A j \in 1..(Size - 2) : Dot(Transpose(block, Size - 1)[j], loc.b) = F(0)
             /\ ret.value = FDiv(Dot(loc.b, MatVec(block, loc.f)), F(args.lag))

\* backward_coeffs has returned for two matrices with C0 not the identity and
\* a nonzero single-lag generator
C1_Witness ==
    /\ ReturnedFrom("backward_coeffs")
    /\ args.mats[1] # CorrelationMatrix(Size, 0)
    /\ \E i \in 1..Size : \E j \in 1..Size : SingleLag[i][j] # F(0)
    /\ \E i \in 1..Size : ret.value[i] \notin {F(0), F(1)}

\* mats[1] - mats[0] + sum of the memory terms of a call
Generator == correlation_generator(args.mats, loc.mems)
FinishedIn(fn) == pc \in {"done", "failed"} /\ args.fn = fn
HasMemory == \E i \in 1..Size : \E j \in 1..Size : SumMems(loc.mems, Len(loc.mems), Size)[i][j] # F(0)

\* C12: for two or more matrices, with gen = mats[1] - mats[0] + sum of memory
\* terms, forward_coeffs returns c with last entry 1 and gen[:-1, :] c = 0,
\* the free part solving gen[:-1, :-1] c[:-1] = -gen[:-1, -1]; when the free
\* block is singular the call ends with the linear-solve error and no
\* coefficients.
C12_ForwardCoeffs ==
    FinishedIn("forward_coeffs") =>
        LET free == Block(Generator, 1, Size - 1, 1, Size - 1)
        IN /\ pc = "failed" <=> Det(free) = F(0)
           /\ pc = "failed" => ret.kind = "LinAlgError"
           /\ pc = "done" =>
                 /\ ret.kind = "ok"
                 /\ Len(ret.value) = Size
                 /\ ret.value[Size] = F(1)
                 /\ \A i \in 1..(Size - 1) :
                       /\ Dot(Generator[i], ret.value) = F(0)
                       /\ Dot(free[i], Slice(ret.value, 0, Size - 1))
                             = FNeg(Generator[i][Size])

\* forward_coeffs has returned for three 3 x 3 matrices with a nonzero memory
\* term, with a free coefficient other than 0 and 1
C12_Witness ==
    /\ FinishedIn("forward_coeffs") /\ pc = "done"
    /\ Len(args.mats) = 3 /\ Size = 3
    /\ HasMemory
    /\ \E i \in 1..(Size - 1) : ret.value[i] \notin {F(0), F(1)}

\* inverse(mats[0]) . (mats[1] - mats[0] + sum of memory terms), when mats[0]
\* is invertible
SolvedGenerator == solve_columns(args.mats[1], Generator).x

\* C13: for two or more matrices with mats[0] invertible, with
\* gen = inverse(mats[0]) (mats[1] - mats[0] + sum of memory terms),
\* backward_coeffs returns c such that u = mats[0]^T c has u[0] = 1 and
\* u^T gen[:, 1:] = 0, that is gen^T[1:, 1:] u[1:] = -gen^T[1:, 0]; the
\* boundary coordinate is the first index.
C13_BackwardCoeffs ==
    FinishedIn("backward_coeffs") =>
        LET C0 == args.mats[1]
            inner == Block(Transpose(SolvedGenerator, Size), 2, Size, 2, Size)
        IN /\ pc = "failed" <=> (Det(C0) = F(0) \/ Det(inner) = F(0))
           /\ pc = "failed" => ret.kind = "LinAlgError"
           /\ pc = "done" =>
                 LET gen == SolvedGenerator
                     genT == Transpose(gen, Size)
                     u == MatVec(Transpose(C0, Size), ret.value)
                 IN /\ MatMul(C0, gen) = Generator
                    /\ Len(ret.value) = Size
                    /\ u[1] = F(1)
                    /\ \A j \in 2..Size :
                          /\ Dot(u, genT[j]) = F(0)
                          /\ Dot(inner[j - 1], Slice(u, 1, Size)) = FNeg(genT[j][1])

\* backward_coeffs has returned for three 3 x 3 matrices with a nonzero memory
\* term and mats[0] not the identity
C13_Witness ==
    /\ FinishedIn("backward_coeffs") /\ pc = "done"
    /\ Len(args.mats) = 3 /\ Size = 3
    /\ HasMemory
    /\ args.mats[1] # CorrelationMatrix(Size, 0)
    /\ \E i \in 1..Size : ret.value[i] \notin {F(0), F(1)}

\* C14: integral_solve fails with an assertion unless len(mats) == mem + 2 and
\* lag is divisible by mem + 1; otherwise, with
\* gen = inverse(mats[0]) (mats[1] - mats[0] + sum of memory terms) and
\* D = lag / (mem + 1), what it returns is (b . gen[:-1, 1:] . f) / D, where
\* f ends in 1 and its other entries solve gen[1:-1, 1:-1] x = -gen[1:-1, -1],
\* and b starts with 1 and its other entries solve
\* gen^T[1:-1, 1:-1] x = -gen^T[1:-1, 0].
C14_IntegralSolve ==
    (args.fn = "integral_solve" /\ pc # "enter") =>
        LET asserted == Len(args.mats) = args.mem + 2 /\ args.lag % (args.mem + 1) = 0
        IN /\ ~asserted <=> (pc = "failed" /\ ret.kind = "AssertionError")
           /\ ~asserted => ret.line = (IF Len(args.mats) # args.mem + 2 THEN 880 ELSE 881)
           /\ pc = "done" =>
                 LET gen == loc.gen
                     genT == Transpose(gen, Size)
                     block == Block(gen, 1, Size - 1, 2, Size)
                     f == loc.f
                     b == loc.b
                 IN /\ MatMul(args.mats[1], gen) = Generator
                    /\ Len(f) = Size - 1 /\ f[Size - 1] = F(1)
                    /\ \A i \in 2..(Size - 1) :
                          Dot(Block(gen, 2, Size - 1, 2, Size - 1)[i - 1],
                              Slice(f, 0, Size - 2)) = FNeg(gen[i][Size])
                    /\ Len(b) = Size - 1 /\ b[1] = F(1)
                    /\ \A i \in 2..(Size - 1) :
                          Dot(Block(genT, 2, Size - 1, 2, Size - 1)[i - 1],
                              Slice(b, 1, Size - 1)) = FNeg(genT[i][1])
                    /\ ret.value = FDiv(Dot(b, MatVec(block, f)),
                                        F(args.lag \div (args.mem + 1)))

\* integral_solve has returned a finite nonzero average for three matrices
\* with mem = 1 and lag = 2, with free entries of f and b other than 0
C14_Witness ==
    /\ args.fn = "integral_solve" /\ pc = "done"
    /\ args.mem = 1 /\ args.lag = 2
    /\ IsFinite(ret.value) /\ ret.value # F(0)
    /\ loc.f[1] # F(0) /\ loc.b[2] # F(0)

----------------------------------------------------------------------------
(* Calls of the memory estimators and of integral_solve, as far as the     *)
(* order of their steps goes (SpecL): the lag times, one correlation       *)
(* matrix per lag time, then the solver.                                   *)

ForecastFns == {"forward_committor", "forward_mfpt", "forward_feynman_kac"}
AftcastFns == {"backward_committor", "backward_mfpt", "backward_feynman_kac"}
IntegralFns == {"reweight_integral", "forward_committor_integral", "forward_mfpt_integral",
                "forward_feynman_kac_integral", "backward_committor_integral",
                "backward_mfpt_integral", "backward_feynman_kac_integral",
                "tpt_integral", "integral"}
EstimatorFns == {"reweight"} \cup ForecastFns \cup AftcastFns \cup IntegralFns

\* variant: _memlags without its assertion
_memlags_unasserted(lag, mem) ==
    IF lag \div (mem + 1) = 0
    THEN [ok |-> FALSE, exc |-> "ZeroDivisionError", line |-> 962]
    ELSE [ok |-> TRUE,
          value |-> [k \in 1..((lag \div (lag \div (mem + 1))) + 1) |->
                        (k - 1) * (lag \div (mem + 1))]]

\* variant: np.arange(0, lag, step), which leaves out lag itself
_memlags_exclusive(lag, mem) ==
    IF lag % (mem + 1) # 0
    THEN [ok |-> FALSE, exc |-> "AssertionError", line |-> 961]
    ELSE IF lag \div (mem + 1) = 0
    THEN [ok |-> FALSE, exc |-> "ZeroDivisionError", line |-> 962]
    ELSE [ok |-> TRUE,
          value |-> [k \in 1..(lag \div (lag \div (mem + 1))) |->
                        (k - 1) * (lag \div (mem + 1))]]

\* _memlags(lag, mem); np.arange raises when its step is 0
_memlags(lag, mem) ==
    IF lag % (mem + 1) # 0
    THEN [ok |-> FALSE, exc |-> "AssertionError", line |-> 961]
    ELSE IF lag \div (mem + 1) = 0
    THEN [ok |-> FALSE, exc |-> "ZeroDivisionError", line |-> 962]
    ELSE [ok |-> TRUE,
          value |-> [k \in 1..((lag \div (lag \div (mem + 1))) + 1) |->
                        (k - 1) * (lag \div (mem + 1))]]

InitL ==
    /\ pc = "call"
    /\ \E fn \in EstimatorFns \cup {"integral_solve"}, lag \in 0..MaxLag, mem \in 0..MaxMem,
          nmats \in 0..(MaxMem + 2) :
          \* nmats is the length of mats in a direct call of integral_solve
          /\ fn = "integral_solve" <=> nmats >= 2
          /\ fn # "integral_solve" => nmats = 0
          /\ args = [fn |-> fn, lag |-> lag, mem |-> mem, nmats |-> nmats]
    /\ loc = [lags |-> << >>, built |-> << >>, solves |-> 0]
    /\ ret = [kind |-> "running"]

\* the iterable of the list comprehension: _memlags(lag, mem)
MemlagsCall ==
    /\ pc = "call" /\ args.fn \in EstimatorFns
    /\ LET lags == _memlags(args.lag, args.mem)
       IN IF lags.ok
          THEN /\ pc' = "build"
               /\ loc' = [loc EXCEPT !.lags = lags.value]
               /\ UNCHANGED ret
          ELSE /\ Raise(lags.exc, lags.line)
               /\ UNCHANGED loc
    /\ UNCHANGED args

\* one element of the list comprehension: _matrix.<fn>_matrix(..., t, ...)
BuildMatrix ==
    /\ pc = "build" /\ Len(loc.built) < Len(loc.lags)
    /\ loc' = [loc EXCEPT !.built = Append(@, loc.lags[Len(loc.built) + 1])]
    /\ UNCHANGED <<pc, args, ret>>

\* return <...>_solve(mats, ...)
CallSolver ==
    /\ pc = "build" /\ Len(loc.built) = Len(loc.lags)
    /\ pc' = IF args.fn \in IntegralFns THEN "integral_solve" ELSE "coeffs"
    /\ UNCHANGED <<args, loc, ret>>

NumMats == IF args.fn = "integral_solve" THEN args.nmats ELSE Len(loc.built)

\* integral_solve: assert len(mats) == mem + 2 ... assert lag % (mem + 1) == 0
IntegralSolveAsserts ==
    /\ \/ pc = "call" /\ args.fn = "integral_solve"
       \/ pc = "integral_solve"
    /\ IF NumMats # args.mem + 2 THEN Raise("AssertionError", 880)
       ELSE IF args.lag % (args.mem + 1) # 0 THEN Raise("AssertionError", 881)
       ELSE pc' = "coeffs" /\ UNCHANGED ret
    /\ UNCHANGED <<args, loc>>

\* the linear solves of forward_coeffs (one), backward_coeffs (three) and
\* integral_solve (three); each can fail on a singular matrix
LinearSolves ==
    /\ pc = "coeffs"
    /\ \E done \in 1..3 : \E fails \in BOOLEAN :
          /\ done <= (IF args.fn \in ForecastFns THEN 1 ELSE 3)
          /\ ~fails => done = (IF args.fn \in ForecastFns THEN 1 ELSE 3)
          /\ loc' = [loc EXCEPT !.solves = done]
          /\ IF fails THEN Raise("LinAlgError", 0)
             ELSE pc' = "done" /\ ret' = [kind |-> "ok"]
    /\ UNCHANGED args

NextL ==
    \/ MemlagsCall
    \/ BuildMatrix
    \/ CallSolver
    \/ IntegralSolveAsserts
    \/ LinearSolves

SpecL == InitL /\ [][NextL]_vars

NotDivisible == args.lag % (args.mem + 1) # 0

\* C6: when lag is not divisible by mem + 1, an estimator fails with the
\* assertion of _memlags and integral_solve with one of its own; the call has
\* no result, and in the estimators no correlation matrix has been built and
\* no linear solve performed.
C6_LagNotDivisible ==
    NotDivisible =>
        /\ pc \in {"call", "failed"}
        /\ pc = "failed" =>
              /\ ret.kind = "AssertionError"
              /\ ret.line = (IF args.fn \in EstimatorFns THEN 961
                             ELSE IF args.nmats # args.mem + 2 THEN 880 ELSE 881)
        /\ ret.kind # "ok"
        /\ loc.built = << >>
        /\ loc.solves = 0

\* an estimator called with lag = 1, mem = 1 has failed in _memlags
C6_Witness ==
    /\ NotDivisible
    /\ args.fn \in EstimatorFns
    /\ pc = "failed"
    /\ ret = [kind |-> "AssertionError", line |-> 961]

----------------------------------------------------------------------------
(* One call of forward_extended_feynman_kac or                             *)
(* backward_extended_feynman_kac with a single trajectory, n_basis = 1 and *)
(* arrays of consistent shapes, with the test basis an argument: None, or  *)
(* an array given by the caller.                                           *)

EngineFns == {"forward_extended_feynman_kac", "backward_extended_feynman_kac"}

\* test_basis=None, and a test basis given by the caller
NoTestBasis == [given |-> FALSE]
Given(x) == [given |-> TRUE, value |-> x]

\* variant: None is resolved to a test basis of ones
resolve_test_basis_ones(test_basis, basis) ==
    IF test_basis = NoTestBasis
    THEN [i \in 1..Len(basis) |-> [t \in 1..Len(basis[i]) |-> 1]]
    ELSE test_basis.value

\* if test_basis is None: test_basis = basis
resolve_test_basis(test_basis, basis) ==
    IF test_basis = NoTestBasis THEN basis ELSE test_basis.value

\* variant: the guess is subtracted at the end of the lag, not at its start
forward_frames_lagged_guess(x, y, w, m, d, f, g, ni, nt, lag) ==
    LET M == _forward_transitions_helper(ni, nt, m, d, f, g, lag)
    IN [i \in 1..ni |-> [t \in 1..(nt + 1 - lag) |->
          [wx |-> w[t] * x[i][t],
           yi |-> Sum([j \in 1..ni |-> M[t][i][j] * y[j][t + lag]]) - y[i][t],
           gi |-> Sum([j \in 1..ni |-> M[t][i][j] * g[j][t + lag]]) + M[t][i][ni + 1]
                  - g[i][t + lag]]]]

\* the arrays wx, yi, gi of the forward loop, by index i and frame t
forward_frames(x, y, w, m, d, f, g, ni, nt, lag) ==
    LET M == _forward_transitions_helper(ni, nt, m, d, f, g, lag)
    IN [i \in 1..ni |-> [t \in 1..(nt + 1 - lag) |->
          [wx |-> w[t] * x[i][t],
           yi |-> Sum([j \in 1..ni |-> M[t][i][j] * y[j][t + lag]]) - y[i][t],
           gi |-> Sum([j \in 1..ni |-> M[t][i][j] * g[j][t + lag]]) + M[t][i][ni + 1]
                  - g[i][t]]]]

\* variant: the test basis is read at the start of the lag, as in the forward
\* loop
backward_frames_forward_pairing(x, y, w, m, d, f, g, ni, nt, lag) ==
    LET M == _backward_transitions_helper(ni, nt, m, d, f, g, lag)
    IN [i \in 1..ni |-> [t \in 1..(nt + 1 - lag) |->
          [wx |-> w[t] * x[i][t],
           yi |-> Sum([j \in 1..ni |-> M[t][j][i] * y[j][t]]) - y[i][t + lag],
           gi |-> Sum([j \in 1..ni |-> M[t][j][i] * g[j][t]]) + M[t][ni + 1][i]
                  - g[i][t + lag]]]]

\* the arrays wx, yi, gi of the backward loop, by index i and frame t
backward_frames(x, y, w, m, d, f, g, ni, nt, lag) ==
    LET M == _backward_transitions_helper(ni, nt, m, d, f, g, lag)
    IN [i \in 1..ni |-> [t \in 1..(nt + 1 - lag) |->
          [wx |-> w[t] * x[i][t + lag],
           yi |-> Sum([j \in 1..ni |-> M[t][j][i] * y[j][t]]) - y[i][t + lag],
           gi |-> Sum([j \in 1..ni |-> M[t][j][i] * g[j][t]]) + M[t][ni + 1][i]
                  - g[i][t + lag]]]]

\* the arrays of the call
EDomain == DomainArray(args.ni, args.nt, args.exit)
EGuess == GuessArray(args.ni, args.nt, EDomain)
EBasis == BasisArray(args.ni, args.nt, EDomain, args.yout)
EWeights == WeightArray(args.nt, args.z)
ETransitions == TransitionArray(args.ni, args.nt)
EFunction == Full(args.ni, args.nt, args.fv)
Ones(ni, nt) == [i \in 1..ni |-> [t \in 1..(nt + 1) |-> 1]]

InitE ==
    /\ pc = "enter"
    /\ \E fn \in EngineFns, ni \in 1..MaxNi, nt \in 1..MaxNt, lag \in 0..MaxNt,
          exit \in 0..(MaxNt + 1), z \in 0..(MaxNt + 1), yout \in {0, 1}, fv \in 0..2 :
          /\ lag <= nt /\ exit <= nt + 1 /\ z <= nt + 1
          /\ \E tb \in {NoTestBasis, Given(Ones(ni, nt))}
                      \cup {Given(BasisArray(ni, nt, DomainArray(ni, nt, exit), yo)) :
                              yo \in {0, 1}} :
                args = [fn |-> fn, ni |-> ni, nt |-> nt, lag |-> lag, exit |-> exit,
                        z |-> z, yout |-> yout, fv |-> fv, test_basis |-> tb]
    /\ loc = [a |-> 0, b |-> 0]
    /\ ret = [kind |-> "running"]

\* lines 169-170 (380-381)
EResolve ==
    /\ pc = "enter"
    /\ loc' = [a |-> 0, b |-> 0,
               test_basis |-> resolve_test_basis(args.test_basis, EBasis)]
    /\ pc' = "zip"
    /\ UNCHANGED <<args, ret>>

\* the loop over the trajectory: lines 173-206 (384-417)
EAccumulate ==
    /\ pc = "zip"
    /\ IF ~WeightTailIsZero(EWeights, args.lag)
       THEN /\ Raise("AssertionError", IF args.fn \in ForwardFns THEN 176 ELSE 387)
            /\ UNCHANGED loc
       ELSE IF args.lag = 0
       THEN /\ \E line \in (IF args.fn \in ForwardFns THEN {188, 202} ELSE {399, 403, 413}) :
                  Raise("Exception", line)
            /\ UNCHANGED loc
       ELSE /\ LET x == loc.test_basis
                   c == IF args.fn \in ForwardFns
                        THEN ForwardContribution(x, EBasis, EWeights, ETransitions, EDomain,
                                                 EFunction, EGuess, args.ni, args.nt, args.lag)
                        ELSE BackwardContribution(x, EBasis, EWeights, ETransitions, EDomain,
                                                  EFunction, EGuess, args.ni, args.nt, args.lag)
                   frames == IF args.fn \in ForwardFns
                             THEN forward_frames(x, EBasis, EWeights, ETransitions, EDomain,
                                                 EFunction, EGuess, args.ni, args.nt, args.lag)
                             ELSE backward_frames(x, EBasis, EWeights, ETransitions, EDomain,
                                                  EFunction, EGuess, args.ni, args.nt, args.lag)
               IN loc' = [a |-> loc.a + c.a, b |-> loc.b + c.b,
                          test_basis |-> x, frames |-> frames]
            /\ pc' = "solve"
            /\ UNCHANGED ret
    /\ UNCHANGED args

\* coeffs = linalg.solve(a, b)
ESolve ==
    /\ pc = "solve"
    /\ LET sol == solve(<<<<F(loc.a)>>>>, <<F(loc.b)>>)
       IN IF sol.ok
          THEN /\ pc' = "transform"
               /\ loc' = [a |-> loc.a, b |-> loc.b, test_basis |-> loc.test_basis,
                          frames |-> loc.frames, coeffs |-> sol.x[1]]
               /\ UNCHANGED ret
          ELSE /\ Raise("LinAlgError", IF args.fn \in ForwardFns THEN 208 ELSE 419)
               /\ UNCHANGED loc
    /\ UNCHANGED args

\* return transform(coeffs, basis, guess)
EReturn ==
    /\ pc = "transform"
    /\ pc' = "done"
    /\ ret' = [kind |-> "ok", value |-> transform(loc.coeffs, EBasis, EGuess)]
    /\ UNCHANGED <<args, loc>>

NextE ==
    \/ EResolve
    \/ EAccumulate
    \/ ESolve
    \/ EReturn

SpecE == InitE /\ [][NextE]_vars

\* what the loop accumulates when x is the test basis
Accumulated(x) ==
    IF args.fn \in ForwardFns
    THEN ForwardContribution(x, EBasis, EWeights, ETransitions, EDomain, EFunction, EGuess,
                             args.ni, args.nt, args.lag)
    ELSE BackwardContribution(x, EBasis, EWeights, ETransitions, EDomain, EFunction, EGuess,
                              args.ni, args.nt, args.lag)

\* C15: a call with test_basis = None goes as the call with an explicit copy of
\* the trial basis as test basis: None is resolved to basis at the top of the
\* entry point, so the accumulated a and b, the solved coefficients, every
\* per-frame output and a failure are those of the call with the copy.
C15_DefaultEquivalence ==
    (args.test_basis = NoTestBasis /\ pc # "enter") =>
        LET copy == Given([i \in 1..args.ni |-> [t \in 1..(args.nt + 1) |-> EBasis[i][t]]])
            c == Accumulated(copy.value)
            sol == solve(<<<<F(c.a)>>>>, <<F(c.b)>>)
            asserted == WeightTailIsZero(EWeights, args.lag)
        IN /\ loc.test_basis = copy.value
           /\ pc \in {"solve", "transform", "done"} => loc.a = c.a /\ loc.b = c.b
           /\ pc \in {"transform", "done"} => sol.ok /\ loc.coeffs = sol.x[1]
           /\ pc = "done" => ret.value = transform(sol.x[1], EBasis, EGuess)
           /\ pc = "failed" =>
                 IF ~asserted THEN ret.kind = "AssertionError"
                 ELSE IF args.lag = 0 THEN ret.kind = "Exception"
                 ELSE ret.kind = "LinAlgError" /\ ~sol.ok

\* a call with test_basis = None has returned estimates that differ from the
\* guess, where a test basis of ones would have accumulated another a or b
C15_Witness ==
    /\ args.test_basis = NoTestBasis /\ pc = "done"
    /\ loc.coeffs # F(0)
    /\ ret.value # transform(F(0), EBasis, EGuess)
    /\ Accumulated(Ones(args.ni, args.nt)) # [a |-> loc.a, b |-> loc.b]

Accumulating == pc \in {"solve", "transform", "done"}
Forward == args.fn \in ForwardFns
\* the frame whose in_domain decides about the term of frame t: t in the
\* forward engine, t + lag in the backward engine
DecidingFrame(t) == IF Forward THEN t ELSE t + args.lag
Composites ==
    IF Forward
    THEN _forward_transitions_helper(args.ni, args.nt, ETransitions, EDomain, EFunction,
                                     EGuess, args.lag)
    ELSE _backward_transitions_helper(args.ni, args.nt, ETransitions, EDomain, EFunction,
                                      EGuess, args.lag)
\* the sum of term(i, t) over the frames whose deciding frame is in the domain
\* (inside) or outside it
FrameSum(inside, term(_, _)) ==
    Sum([i \in 1..args.ni |->
          Sum([t \in 1..(args.nt + 1 - args.lag) |->
                IF EDomain[i][DecidingFrame(t)] = inside THEN term(i, t) ELSE 0])])

\* C20: in the forward engine, for lag >= 1 and every (i, t) with
\* in_domain[i, t] false, row i of the composite at t is zero in columns
\* 0..ni-1 and g[i, t] in column ni, so gi[t] = 0 and the frame adds nothing to
\* b whatever the basis is, and nothing to a when the basis or the test basis
\* is zero at (i, t); the backward engine has the same with column i of the
\* composite at t and in_domain, guess and bases read at (i, t + lag).
C20_OutsideDomainFrames ==
    Accumulating =>
        LET ni == args.ni
            x == loc.test_basis
            A(i, t) == loc.frames[i][t].wx * loc.frames[i][t].yi
            B(i, t) == loc.frames[i][t].wx * loc.frames[i][t].gi
            Outside(i, t) == - EWeights[t] * x[i][DecidingFrame(t)] * EBasis[i][DecidingFrame(t)]
        IN /\ \A i \in 1..ni : \A t \in 1..(args.nt + 1 - args.lag) :
                 ~EDomain[i][DecidingFrame(t)] =>
                     /\ \A j \in 1..(ni + 1) :
                           (IF Forward THEN Composites[t][i][j] ELSE Composites[t][j][i])
                              = (IF j <= ni THEN 0 ELSE EGuess[i][DecidingFrame(t)])
                     /\ loc.frames[i][t].gi = 0
                     /\ B(i, t) = 0
                     /\ A(i, t) = Outside(i, t)
                     /\ (x[i][DecidingFrame(t)] = 0 \/ EBasis[i][DecidingFrame(t)] = 0)
                           => A(i, t) = 0
           /\ loc.b = - FrameSum(TRUE, B)
           /\ loc.a = FrameSum(TRUE, A) + FrameSum(FALSE, Outside)

\* a forward call has accumulated a nonzero b over a trajectory with a
\* weighted frame outside the domain where the guess and the test basis are
\* nonzero and the basis is zero: the frame's terms of a and b are zero
C20_Witness ==
    /\ Accumulating /\ Forward
    /\ loc.b # 0
    /\ \E i \in 1..args.ni : \E t \in 1..(args.nt + 1 - args.lag) :
          /\ ~EDomain[i][t]
          /\ EWeights[t] # 0 /\ EGuess[i][t] # 0
          /\ loc.test_basis[i][t] # 0 /\ EBasis[i][t] = 0
          /\ loc.frames[i][t].wx # 0
          /\ loc.frames[i][t].gi = 0 /\ loc.frames[i][t].yi = 0
          /\ Composites[t][i][args.ni + 1] = EGuess[i][t]

\* s[:-lag] and s[lag:] for 1 <= lag <= len(s)
UpToLag(s) == Slice(s, 0, Len(s) - args.lag)
FromLag(s) == Slice(s, args.lag, Len(s))

\* C21: for 1 <= lag <= nt there are nt - lag + 1 composites, as many as rows
\* of weight[:-lag] and of basis[lag:]; composite k is combined with the weight
\* at frame k and with frames lag apart: forward with the test basis at k and
\* the basis and guess at k + lag minus their values at k, backward with the
\* test basis at k + lag and the basis and guess at k minus their values at
\* k + lag.  With lag = 0 the weight precondition requires every weight of the
\* trajectory to be zero.
C21_FramePairing ==
    /\ (args.lag = 0 /\ pc \notin {"enter", "zip"}) =>
          /\ pc = "failed"
          /\ (\E t \in 1..(args.nt + 1) : EWeights[t] # 0)
                <=> ret = [kind |-> "AssertionError",
                           line |-> IF Forward THEN 176 ELSE 387]
    /\ Accumulating =>
          LET ni == args.ni
              x == loc.test_basis
              y == EBasis
              g == EGuess
              C == Composites
              n == args.nt - args.lag + 1
          IN /\ args.lag >= 1
             /\ Len(C) = n /\ Len(UpToLag(EWeights)) = n
             /\ \A i \in 1..ni :
                   /\ Len(FromLag(y[i])) = n /\ Len(UpToLag(x[i])) = n /\ Len(loc.frames[i]) = n
                   /\ \A k \in 1..n :
                         LET fr == loc.frames[i][k]
                         IN IF Forward
                            THEN /\ fr.wx = UpToLag(EWeights)[k] * UpToLag(x[i])[k]
                                 /\ fr.wx = EWeights[k] * x[i][k]
                                 /\ fr.yi = Sum([j \in 1..ni |-> C[k][i][j] * FromLag(y[j])[k]])
                                            - UpToLag(y[i])[k]
                                 /\ fr.yi = Sum([j \in 1..ni |-> C[k][i][j] * y[j][k + args.lag]])
                                            - y[i][k]
                                 /\ fr.gi = Sum([j \in 1..ni |-> C[k][i][j] * g[j][k + args.lag]])
                                            + C[k][i][ni + 1] - g[i][k]
                            ELSE /\ fr.wx = UpToLag(EWeights)[k] * FromLag(x[i])[k]
                                 /\ fr.wx = EWeights[k] * x[i][k + args.lag]
                                 /\ fr.yi = Sum([j \in 1..ni |-> C[k][j][i] * UpToLag(y[j])[k]])
                                            - FromLag(y[i])[k]
                                 /\ fr.yi = Sum([j \in 1..ni |-> C[k][j][i] * y[j][k]])
                                            - y[i][k + args.lag]
                                 /\ fr.gi = Sum([j \in 1..ni |-> C[k][j][i] * g[j][k]])
                                            + C[k][ni + 1][i] - g[i][k + args.lag]
             /\ loc.a = Sum([i \in 1..ni |->
                              Sum([k \in 1..n |-> loc.frames[i][k].wx * loc.frames[i][k].yi])])
             /\ loc.b = - Sum([i \in 1..ni |->
                                Sum([k \in 1..n |-> loc.frames[i][k].wx * loc.frames[i][k].gi])])

\* a backward call with lag 2 has accumulated a weighted frame whose test
\* basis differs between frame k and frame k + lag: wx holds the value at
\* k + lag, and the frame's residuals are not zero
C21_Witness ==
    /\ Accumulating /\ ~Forward /\ args.lag = 2
    /\ \E i \in 1..args.ni : \E k \in 1..(args.nt - args.lag + 1) :
          /\ EWeights[k] # 0
          /\ loc.test_basis[i][k] # loc.test_basis[i][k + args.lag]
          /\ loc.frames[i][k].wx = EWeights[k] * loc.test_basis[i][k + args.lag]
          /\ loc.frames[i][k].wx # 0
          /\ loc.frames[i][k].yi # 0 /\ loc.frames[i][k].gi # 0

\* the lag times 0, D, 2D, ..., (mem + 1) D with D = lag / (mem + 1)
LagTimes(lag, mem) == [k \in 1..(mem + 2) |-> (k - 1) * (lag \div (mem + 1))]
MemlagsReturned == args.fn \in EstimatorFns /\ pc \notin {"call"}

====
